---- MODULE Spec2Model ----
(***************************************************************************)
(* A model of prog_med (src/src/main.rs): main spawns one task per target  *)
(* record under a processor semaphore; process_data resolves the target's  *)
(* accessions one after the other, extracts the PDB identifiers of each    *)
(* lookup page and fans out download_pdb tasks under a per-accession       *)
(* downloader semaphore; download_pdb walks CONFIG.download_url in order.  *)
(*                                                                         *)
(* Text is a sequence of one-character strings (a few multi-character      *)
(* tokens stand for URL pieces that no operation looks into).              *)
(***************************************************************************)
EXTENDS Integers, Sequences, FiniteSets, TLC

\* ------------------------------------------------------------------ bounds
\* Longest page, in lines, of the extraction harness.
MaxLines == 3

\* ------------------------------------------------------------- text helpers
RECURSIVE SplitOn(_, _)
\* slice::split / str::split: the pieces of s between occurrences of sep
\* (always at least one piece, possibly empty).
SplitOn(s, sep) ==
    IF \E n \in 1..Len(s) : s[n] = sep
    THEN LET n == CHOOSE m \in 1..Len(s) :
                     s[m] = sep /\ \A l \in 1..(m - 1) : s[l] # sep
         IN  <<SubSeq(s, 1, n - 1)>> \o SplitOn(SubSeq(s, n + 1, Len(s)), sep)
    ELSE <<s>>

\* slice::starts_with
StartsWith(s, prefix) ==
    Len(s) >= Len(prefix) /\ SubSeq(s, 1, Len(prefix)) = prefix

\* str::to_lowercase on the characters the pages use.
LowerChar(c) ==
    CASE c = "A" -> "a"
      [] c = "B" -> "b"
      [] c = "C" -> "c"
      [] c = "X" -> "x"
      [] OTHER -> c

\* String::from_utf8_lossy: a byte that is no UTF-8 becomes U+FFFD.
LossyChar(c) == IF c = "0xFF" THEN "U+FFFD" ELSE c

\* ------------------------------------------------- identifier extraction
\* b"DR   PDB;" (main.rs:151)
TagPDB == <<"D", "R", " ", " ", " ", "P", "D", "B", ";">>

\* The byte window &slice[10..14] (main.rs:153), as 1-based positions.
WindowFirst == 11
WindowLast == 14

RECURSIVE FilterTagged(_)
\* .filter(|slice| slice.starts_with(b"DR   PDB;")), order kept.
FilterTagged(slices) ==
    IF slices = <<>> THEN <<>>
    ELSE (IF StartsWith(Head(slices), TagPDB) THEN <<Head(slices)>> ELSE <<>>)
         \o FilterTagged(Tail(slices))

\* The lines the split and the filter of main.rs:149-151 retain.
TaggedLines(page) == FilterTagged(SplitOn(page, "\n"))

\* The window as it stands in the page, not lowercased.
ExtractWindowRaw(slice) ==
    [n \in 1..(WindowLast - WindowFirst + 1) |-> LossyChar(slice[WindowFirst + n - 1])]

\* String::from_utf8_lossy(&slice[10..14]).to_lowercase()
ExtractWindow(slice) ==
    [n \in 1..(WindowLast - WindowFirst + 1) |->
        LowerChar(LossyChar(slice[WindowFirst + n - 1]))]

\* main.rs:147-155: the identifiers of a page, or a panic when a retained
\* line is shorter than the window (slice index out of range).
ExtractIds(page) ==
    LET kept == TaggedLines(page)
    IN  IF \E n \in 1..Len(kept) : Len(kept[n]) < WindowLast
        THEN [panic |-> TRUE, ids |-> <<>>]
        ELSE [panic |-> FALSE,
              ids |-> [n \in 1..Len(kept) |-> ExtractWindow(kept[n])]]

\* ------------------------------------------------------------ URL helpers
\* The position of the first occurrence of c in s, 0 when there is none.
IndexOf(s, c) ==
    IF \E n \in 1..Len(s) : s[n] = c
    THEN CHOOSE n \in 1..Len(s) : s[n] = c /\ \A l \in 1..(n - 1) : s[l] # c
    ELSE 0

\* The position of the last occurrence of c in s, 0 when there is none.
LastIndexOf(s, c) ==
    IF \E n \in 1..Len(s) : s[n] = c
    THEN CHOOSE n \in 1..Len(s) : s[n] = c /\ \A l \in (n + 1)..Len(s) : s[l] # c
    ELSE 0

\* format (main.rs:95-101): the text around the first '%' with the
\* formatter in its place, or fmt::Error when the template holds no '%'.
Format(url, formatter) ==
    LET n == IndexOf(url, "%")
    IN  IF n = 0 THEN [ok |-> FALSE, url |-> <<>>]
        ELSE [ok |-> TRUE,
              url |-> SubSeq(url, 1, n - 1) \o formatter \o SubSeq(url, n + 1, Len(url))]

\* str::parse::<hyper::Uri> (main.rs:205): text with a space is no URI.
UriValid(url) == url # <<>> /\ \A n \in 1..Len(url) : url[n] # " "

\* Uri::path: from the first '/' after the authority (the first token) up to
\* the query.
UriPath(url) ==
    LET from == IndexOf(url, "/")
        q == IndexOf(url, "?")
        upto == IF q = 0 THEN Len(url) ELSE q - 1
    IN  IF from = 0 THEN <<>> ELSE SubSeq(url, from, upto)

RECURSIVE StripTrailingSlashes(_)
StripTrailingSlashes(path) ==
    IF path # <<>> /\ path[Len(path)] = "/"
    THEN StripTrailingSlashes(SubSeq(path, 1, Len(path) - 1))
    ELSE path

\* Path::new(url.path()).file_name() (main.rs:208): the last component, none
\* for the root and for a path that ends in "..".
FileName(url) ==
    LET path == StripTrailingSlashes(UriPath(url))
        name == SubSeq(path, LastIndexOf(path, "/") + 1, Len(path))
    IN  IF name = <<>> \/ name = <<".", ".">>
        THEN [some |-> FALSE, name |-> <<>>]
        ELSE [some |-> TRUE, name |-> name]

\* hyper::StatusCode::OK (main.rs:224)
StatusOK == 200

\* What a mirror may answer to one GET: a connection error, or a status.
MirrorStatuses == {200, 404}
MirrorAnswers ==
    {[err |-> TRUE, status |-> 0]}
    \cup {[err |-> FALSE, status |-> st] : st \in MirrorStatuses}

\* -------------------------------------------------------------------- state
VARIABLES
    CONFIG,       \* UserConfig: processor_limit, downloader_limit, download_url
    records,      \* the Target records of the read file, in file order
    lookup,       \* the lookup service: accession -> connection error or page
    main_pc,      \* where main is: "spawn", "join", "returned" ("test": no main)
    main_i,       \* the record main spawns next, then the task it awaits next
    main_result,  \* "none" while main runs, then "Ok", "ErrIo" or "ErrJoin"
    tasks,        \* per record, the task main spawned for it
    sems,         \* the live semaphores: semaphore -> available permits
    dl,           \* per record, the download tasks of the accession in hand
    dirs,         \* the directories that exist under save_path
    files,        \* the files that exist under save_path: path -> content
    calls,        \* the download_pdb calls a caller outside main has finished
    page,         \* the page handed to the identifier extraction
    lines         \* what the identifier extraction made of page

vars == <<CONFIG, records, lookup, main_pc, main_i, main_result, tasks, sems,
          dl, dirs, files, calls, page, lines>>

\* The tokio runtime lives until main returns; its tasks stop with it.
RuntimeAlive == main_pc # "returned"

\* A semaphore that hands out permits it does not have.
CanAcquireAlways(sem) == TRUE

\* Semaphore::acquire_owned (main.rs:79, 181) completes when a permit is
\* available.
CanAcquire(sem) == sems[sem] > 0

\* A permit bound to nothing: it is dropped as soon as it is acquired.
TakePermitDropped(sem) == sems

\* The semaphores after acquire_owned took one permit of sem.
TakePermit(sem) == [sems EXCEPT ![sem] = @ - 1]

\* ------------------------------------------------------------ download_pdb
\* A download_pdb invocation that has not started (main.rs:180-182).
NewDownload(pdb_id, save_path, sem) ==
    [pc |-> "spawned", t |-> 0, pdb_id |-> pdb_id, save_path |-> save_path,
     sem |-> sem, permit |-> FALSE, error |-> "none"]

\* save_path.join(file_name) for template t (main.rs:205-217).
SaveFilepath(d, t) ==
    d.save_path \o <<FileName(Format(CONFIG.download_url[t], d.pdb_id).url).name>>

\* The loop without the save_filepath.exists() return of main.rs:219-221.
EnterTemplateNoSkip(d, t, fs) ==
    IF t > Len(CONFIG.download_url) THEN [d EXCEPT !.pc = "ok", !.t = t]
    ELSE LET f == Format(CONFIG.download_url[t], d.pdb_id)
         IN  IF ~f.ok THEN [d EXCEPT !.pc = "err", !.t = t, !.error = "fmt"]
             ELSE IF ~UriValid(f.url)
             THEN [d EXCEPT !.pc = "err", !.t = t, !.error = "uri"]
             ELSE IF ~FileName(f.url).some
             THEN [d EXCEPT !.pc = "err", !.t = t, !.error = "file_name"]
             ELSE [d EXCEPT !.pc = "get", !.t = t]

\* main.rs:204-223 and 236: the loop of download_pdb from template t up to
\* its next await: the request to t is sent, or the function returns.
EnterTemplate(d, t, fs) ==
    IF t > Len(CONFIG.download_url) THEN [d EXCEPT !.pc = "ok", !.t = t]
    ELSE LET f == Format(CONFIG.download_url[t], d.pdb_id)
         IN  IF ~f.ok THEN [d EXCEPT !.pc = "err", !.t = t, !.error = "fmt"]
             ELSE IF ~UriValid(f.url)
             THEN [d EXCEPT !.pc = "err", !.t = t, !.error = "uri"]
             ELSE IF ~FileName(f.url).some
             THEN [d EXCEPT !.pc = "err", !.t = t, !.error = "file_name"]
             ELSE IF SaveFilepath(d, t) \in DOMAIN fs
             THEN [d EXCEPT !.pc = "ok", !.t = t]
             ELSE [d EXCEPT !.pc = "get", !.t = t]

\* The answer taken without a look at its status.
OnAnswerAnyStatus(d, answer, fs) ==
    IF answer.err THEN [d EXCEPT !.pc = "err", !.error = "net"]
    ELSE [d EXCEPT !.pc = "create"]

\* main.rs:223-226: the answer to the request to template d.t.
OnAnswer(d, answer, fs) ==
    IF answer.err THEN [d EXCEPT !.pc = "err", !.error = "net"]
    ELSE IF answer.status # StatusOK THEN EnterTemplate(d, d.t + 1, fs)
    ELSE [d EXCEPT !.pc = "create"]

\* The loop without its break: the next template is tried after a download.
AfterBodyNoBreak(d, fs) == EnterTemplate(d, d.t + 1, fs)

\* main.rs:233 and 236: the body is written, break; the function returns Ok.
AfterBody(d, fs) == [d EXCEPT !.pc = "ok"]

\* drop(permit), also on the early returns of `?` (main.rs:181-184).
ReleaseDl(d) ==
    IF d.permit /\ d.sem \in DOMAIN sems
    THEN [sems EXCEPT ![d.sem] = @ + 1]
    ELSE sems

\* A download task after one step: a task that returned holds no permit.
Settled(d) == IF d.pc \in {"ok", "err"} THEN [d EXCEPT !.permit = FALSE] ELSE d

DlCommit(i, n, d) ==
    /\ dl' = [dl EXCEPT ![i][n] = Settled(d)]
    /\ sems' = IF d.pc \in {"ok", "err"} THEN ReleaseDl(dl[i][n]) ELSE sems

\* main.rs:181-182: the task gets a permit and download_pdb starts.
DlAcquire(i, n) ==
    /\ RuntimeAlive
    /\ dl[i][n].pc = "spawned"
    /\ CanAcquire(dl[i][n].sem)
    /\ LET d == EnterTemplate([dl[i][n] EXCEPT !.permit = TRUE], 1, files)
       IN  /\ dl' = [dl EXCEPT ![i][n] = Settled(d)]
           /\ sems' = IF d.pc \in {"ok", "err"} THEN sems
                      ELSE TakePermit(dl[i][n].sem)
    /\ tasks' = [tasks EXCEPT ![i].invoked = @ \cup {<<tasks[i].k, n>>}]
    /\ UNCHANGED <<CONFIG, records, lookup, main_pc, main_i, main_result,
                   dirs, files, calls, page, lines>>

\* main.rs:223-226: client.get(url).await answers with `answer`.
DlAnswerWith(i, n, answer) ==
    /\ RuntimeAlive
    /\ dl[i][n].pc = "get"
    /\ DlCommit(i, n, OnAnswer(dl[i][n], answer, files))
    /\ UNCHANGED <<CONFIG, records, lookup, main_pc, main_i, main_result,
                   tasks, dirs, files, page, lines>>

DlAnswer(i, n) ==
    \E answer \in MirrorAnswers : DlAnswerWith(i, n, answer) /\ UNCHANGED calls

\* main.rs:228: File::create makes the file, or empties the one that is
\* there, or fails.
DlCreate(i, n) ==
    /\ RuntimeAlive
    /\ dl[i][n].pc = "create"
    /\ \/ /\ files' = (SaveFilepath(dl[i][n], dl[i][n].t)
                          :> [from |-> dl[i][n].t, complete |-> FALSE]) @@ files
          /\ DlCommit(i, n, [dl[i][n] EXCEPT !.pc = "write"])
       \/ /\ files' = files
          /\ DlCommit(i, n, [dl[i][n] EXCEPT !.pc = "err", !.error = "create"])
    /\ UNCHANGED <<CONFIG, records, lookup, main_pc, main_i, main_result,
                   tasks, dirs, calls, page, lines>>

\* main.rs:229-233: the body is streamed into the file to its end, or the
\* stream or a write fails on the way.
DlWrite(i, n) ==
    /\ RuntimeAlive
    /\ dl[i][n].pc = "write"
    /\ \/ /\ files' = [files EXCEPT ![SaveFilepath(dl[i][n], dl[i][n].t)] =
                          [from |-> dl[i][n].t, complete |-> TRUE]]
          /\ DlCommit(i, n, AfterBody(dl[i][n], files'))
       \/ /\ files' = files
          /\ DlCommit(i, n, [dl[i][n] EXCEPT !.pc = "err", !.error = "body"])
    /\ UNCHANGED <<CONFIG, records, lookup, main_pc, main_i, main_result,
                   tasks, dirs, calls, page, lines>>

\* ------------------------------------------------------------ process_data
\* The processor semaphore of main.rs:68.
ProcessorSem == <<0, 0>>

\* One downloader semaphore for the whole run.
DownloaderSemShared(i, k) == <<0, 1>>

\* The downloader semaphore that process_data of record i allocates for its
\* k-th accession (main.rs:174).
DownloaderSem(i, k) == <<i, k>>

\* Records per directory of save_path (main.rs:74).
GroupSize == 100

\* Path::new(&CONFIG.save_path).join(format!("{}00", i / 100)), i from 0.
GroupDir(i) == <<<<ToString((i - 1) \div GroupSize), "0", "0">>>>

\* target_name.replace('/', "|") (main.rs:120)
Sanitized(name) == [n \in 1..Len(name) |-> IF name[n] = "/" THEN "|" ELSE name[n]]

TargetDir(i) == GroupDir(i) \o <<Sanitized(records[i].target_name)>>
IdFile(i) == TargetDir(i) \o <<records[i].chembl_id>>
\* path_target.join(&uniprot_accession): joining "" names path_target itself.
UniprotDir(i, acc) == IF acc = <<>> THEN TargetDir(i) ELSE TargetDir(i) \o <<acc>>

\* format!("https://www.uniprot.org/uniprot/{}.txt", uniprot_accession)
LookupUrl(acc) == <<"https://www.uniprot.org", "/", "uniprot", "/">> \o acc \o <<".", "t", "x", "t">>

\* What the lookup service answers for an accession; fetch_data
\* (main.rs:103-115) returns the body whatever the status.
LookupAnswer(acc) ==
    IF acc \in DOMAIN lookup THEN lookup[acc]
    ELSE [err |-> TRUE, status |-> 0, page |-> <<>>]

\* A process_data that takes no field for empty.
NoAccessionNever(field) == FALSE

\* target.uniprot_accession.is_empty() (main.rs:137)
NoAccession(field) == field = <<>>

NewTask ==
    [pc |-> "unspawned", permit |-> FALSE, k |-> 0, accessions |-> <<>>, j |-> 0,
     fetched |-> <<>>, invoked |-> {}, error |-> "none"]

\* A task that is inside process_data (main.rs:80).
InProcessData(i) == tasks[i].pc \in {"marker", "fetch", "join"}
Finished(i) == tasks[i].pc \in {"ok", "err", "panicked"}

\* main.rs:143-145 and 195-196: the loop of process_data from accession k up
\* to its next await: the lookup of k is requested, or the function returns.
EnterAccession(task, k) ==
    IF k > Len(task.accessions) THEN [task EXCEPT !.pc = "ok", !.k = k]
    ELSE IF ~UriValid(LookupUrl(task.accessions[k]))
    THEN [task EXCEPT !.pc = "err", !.k = k, !.error = "uri"]
    ELSE [task EXCEPT !.pc = "fetch", !.k = k, !.fetched = Append(@, k)]

\* A task after one step: one that ended has dropped its permit
\* (main.rs:79-82; the permit is dropped on `?` and on a panic as well).
SettledTask(task) ==
    IF task.pc \in {"ok", "err", "panicked"} THEN [task EXCEPT !.permit = FALSE] ELSE task

TaskCommit(i, task, held) ==
    /\ tasks' = [tasks EXCEPT ![i] = SettledTask(task)]
    /\ sems' = IF task.pc \in {"ok", "err", "panicked"} /\ held
               THEN [sems EXCEPT ![ProcessorSem] = @ + 1]
               ELSE sems

\* main.rs:79-80 and 119-131: the task gets a permit, process_data starts
\* and makes the target's directory.
TaskAcquire(i) ==
    /\ RuntimeAlive
    /\ tasks[i].pc = "acquire"
    /\ CanAcquire(ProcessorSem)
    /\ \/ /\ dirs' = dirs \cup {TargetDir(i)}
          /\ tasks' = [tasks EXCEPT ![i].pc = "marker", ![i].permit = TRUE]
          /\ sems' = TakePermit(ProcessorSem)
       \/ /\ TargetDir(i) \notin dirs
          /\ dirs' = dirs
          /\ tasks' = [tasks EXCEPT ![i].pc = "err", ![i].error = "create_dir"]
          /\ sems' = sems
    /\ UNCHANGED <<CONFIG, records, lookup, main_pc, main_i, main_result,
                   dl, files, calls, page, lines>>

\* main.rs:129-145: the marker file, the empty accession field, the split,
\* and the first lookup request.
TaskMarker(i) ==
    /\ RuntimeAlive
    /\ tasks[i].pc = "marker"
    /\ \/ /\ files' = IF IdFile(i) \in DOMAIN files THEN files
                      ELSE (IdFile(i) :> [from |-> 0, complete |-> TRUE]) @@ files
          /\ IF NoAccession(records[i].uniprot_accession)
             THEN TaskCommit(i, [tasks[i] EXCEPT !.pc = "ok"], TRUE)
             ELSE TaskCommit(i, EnterAccession(
                      [tasks[i] EXCEPT !.accessions =
                           SplitOn(records[i].uniprot_accession, "|")], 1), TRUE)
       \/ /\ IdFile(i) \notin DOMAIN files
          /\ files' = files
          /\ TaskCommit(i, [tasks[i] EXCEPT !.pc = "err", !.error = "create"], TRUE)
    /\ UNCHANGED <<CONFIG, records, lookup, main_pc, main_i, main_result,
                   dl, dirs, calls, page, lines>>

\* main.rs:145-186: the lookup answers; the identifiers are extracted; with
\* none the next accession is taken up, else the accession's directory is
\* made and one download task per identifier is spawned under a new
\* semaphore.
TaskFetched(i) ==
    /\ RuntimeAlive
    /\ tasks[i].pc = "fetch"
    /\ LET k == tasks[i].k
           acc == tasks[i].accessions[k]
           answer == LookupAnswer(acc)
           found == ExtractIds(answer.page)
       IN  IF answer.err
           THEN /\ TaskCommit(i, [tasks[i] EXCEPT !.pc = "err", !.error = "fetch"], TRUE)
                /\ UNCHANGED <<dl, dirs>>
           ELSE IF found.panic
           THEN /\ TaskCommit(i, [tasks[i] EXCEPT !.pc = "panicked", !.error = "panic"], TRUE)
                /\ UNCHANGED <<dl, dirs>>
           ELSE IF found.ids = <<>>
           THEN /\ TaskCommit(i, EnterAccession(tasks[i], k + 1), TRUE)
                /\ UNCHANGED <<dl, dirs>>
           ELSE \/ /\ dirs' = dirs \cup {UniprotDir(i, acc)}
                   /\ dl' = [dl EXCEPT ![i] =
                               [n \in 1..Len(found.ids) |->
                                   NewDownload(found.ids[n], UniprotDir(i, acc),
                                               DownloaderSem(i, k))]]
                   /\ sems' = (DownloaderSem(i, k) :> CONFIG.downloader_limit) @@ sems
                   /\ tasks' = [tasks EXCEPT ![i].pc = "join", ![i].j = 1]
                \/ /\ UniprotDir(i, acc) \notin dirs
                   /\ TaskCommit(i, [tasks[i] EXCEPT !.pc = "err", !.error = "create_dir"], TRUE)
                   /\ UNCHANGED <<dl, dirs>>
    /\ UNCHANGED <<CONFIG, records, lookup, main_pc, main_i, main_result,
                   files, calls, page, lines>>

\* A join loop that returns the Err of a download task from process_data,
\* leaving the accession's other download tasks behind.
TaskJoinDownloadFatal(i) ==
    /\ RuntimeAlive
    /\ tasks[i].pc = "join"
    /\ dl[i][tasks[i].j].pc \in {"ok", "err"}
    /\ IF dl[i][tasks[i].j].pc = "err"
       THEN /\ tasks' = [tasks EXCEPT ![i] =
                           SettledTask([tasks[i] EXCEPT !.pc = "err", !.error = "download"])]
            /\ sems' = [sems EXCEPT ![ProcessorSem] = @ + 1]
            /\ dl' = dl
       ELSE IF tasks[i].j < Len(dl[i])
       THEN /\ tasks' = [tasks EXCEPT ![i].j = @ + 1]
            /\ UNCHANGED <<dl, sems>>
       ELSE /\ dl' = [dl EXCEPT ![i] = <<>>]
            /\ LET next == EnterAccession([tasks[i] EXCEPT !.j = 0], tasks[i].k + 1)
                   kept == [s \in DOMAIN sems \ {DownloaderSem(i, tasks[i].k)} |-> sems[s]]
               IN  /\ tasks' = [tasks EXCEPT ![i] = SettledTask(next)]
                   /\ sems' = IF next.pc \in {"ok", "err"}
                              THEN [kept EXCEPT ![ProcessorSem] = @ + 1]
                              ELSE kept
    /\ UNCHANGED <<CONFIG, records, lookup, main_pc, main_i, main_result,
                   dirs, files, calls, page, lines>>

\* A process_data that awaits the first download task of an accession only
\* and takes up the next accession while the others run.
TaskJoinFirstOnly(i) ==
    /\ RuntimeAlive
    /\ tasks[i].pc = "join"
    /\ dl[i][tasks[i].j].pc \in {"ok", "err"}
    /\ LET next == EnterAccession([tasks[i] EXCEPT !.j = 0], tasks[i].k + 1)
       IN  /\ tasks' = [tasks EXCEPT ![i] = SettledTask(next)]
           /\ sems' = IF next.pc \in {"ok", "err"}
                      THEN [sems EXCEPT ![ProcessorSem] = @ + 1]
                      ELSE sems
    /\ dl' = dl
    /\ UNCHANGED <<CONFIG, records, lookup, main_pc, main_i, main_result,
                   dirs, files, calls, page, lines>>

\* main.rs:189-194: the download task awaited has ended; after the last one
\* the accession is done and the next one is taken up.
TaskJoin(i) ==
    /\ RuntimeAlive
    /\ tasks[i].pc = "join"
    /\ dl[i][tasks[i].j].pc \in {"ok", "err"}
    /\ IF tasks[i].j < Len(dl[i])
       THEN /\ tasks' = [tasks EXCEPT ![i].j = @ + 1]
            /\ UNCHANGED <<dl, sems>>
       ELSE /\ dl' = [dl EXCEPT ![i] = <<>>]
            /\ LET next == EnterAccession([tasks[i] EXCEPT !.j = 0], tasks[i].k + 1)
                   kept == [s \in DOMAIN sems \ {DownloaderSem(i, tasks[i].k)} |-> sems[s]]
               IN  /\ tasks' = [tasks EXCEPT ![i] = SettledTask(next)]
                   /\ sems' = IF next.pc \in {"ok", "err"}
                              THEN [kept EXCEPT ![ProcessorSem] = @ + 1]
                              ELSE kept
    /\ UNCHANGED <<CONFIG, records, lookup, main_pc, main_i, main_result,
                   dirs, files, calls, page, lines>>

\* -------------------------------------------------------------------- main
\* main.rs:70-84: one turn of the loop over the records: the group directory
\* is made and the record's task is spawned.
MainSpawn ==
    /\ main_pc = "spawn"
    /\ \/ /\ dirs' = dirs \cup {GroupDir(main_i)}
          /\ tasks' = [tasks EXCEPT ![main_i].pc = "acquire"]
          /\ IF main_i < Len(records)
             THEN main_i' = main_i + 1 /\ main_pc' = "spawn"
             ELSE main_i' = 1 /\ main_pc' = "join"
          /\ main_result' = main_result
       \/ /\ GroupDir(main_i) \notin dirs
          /\ main_pc' = "returned"
          /\ main_result' = "ErrIo"
          /\ UNCHANGED <<dirs, tasks, main_i>>
    /\ UNCHANGED <<CONFIG, records, lookup, sems, dl, files, calls, page, lines>>

\* A join loop that returns on the Err of a task as it does on its panic.
MainJoinErrFatal ==
    /\ main_pc = "join"
    /\ Finished(main_i)
    /\ IF tasks[main_i].pc \in {"panicked", "err"}
       THEN /\ main_pc' = "returned" /\ main_i' = main_i
            /\ main_result' = IF tasks[main_i].pc = "err" THEN "ErrTask" ELSE "ErrJoin"
       ELSE IF main_i < Len(records)
       THEN main_pc' = "join" /\ main_result' = main_result /\ main_i' = main_i + 1
       ELSE main_pc' = "returned" /\ main_result' = "Ok" /\ main_i' = main_i
    /\ UNCHANGED <<CONFIG, records, lookup, tasks, sems, dl, dirs, files,
                   calls, page, lines>>

\* main.rs:86-92: the task awaited has ended: its error is logged, a panic
\* of it is a JoinError that `?` returns; after the last task, the summary.
MainJoin ==
    /\ main_pc = "join"
    /\ Finished(main_i)
    /\ IF tasks[main_i].pc = "panicked"
       THEN main_pc' = "returned" /\ main_result' = "ErrJoin" /\ main_i' = main_i
       ELSE IF main_i < Len(records)
       THEN main_pc' = "join" /\ main_result' = main_result /\ main_i' = main_i + 1
       ELSE main_pc' = "returned" /\ main_result' = "Ok" /\ main_i' = main_i
    /\ UNCHANGED <<CONFIG, records, lookup, tasks, sems, dl, dirs, files,
                   calls, page, lines>>

Next ==
    \/ MainSpawn
    \/ MainJoin
    \/ \E i \in DOMAIN tasks : TaskAcquire(i)
    \/ \E i \in DOMAIN tasks : TaskMarker(i)
    \/ \E i \in DOMAIN tasks : TaskFetched(i)
    \/ \E i \in DOMAIN tasks : TaskJoin(i)
    \/ \E i \in DOMAIN dl : \E n \in DOMAIN dl[i] : DlAcquire(i, n)
    \/ \E i \in DOMAIN dl : \E n \in DOMAIN dl[i] : DlAnswer(i, n)
    \/ \E i \in DOMAIN dl : \E n \in DOMAIN dl[i] : DlCreate(i, n)
    \/ \E i \in DOMAIN dl : \E n \in DOMAIN dl[i] : DlWrite(i, n)

\* ------------------------------------------- download_pdb called in sequence
\* Most calls a caller outside main makes, and the longest template list.
MaxCalls == 2
MaxTemplates == 3

\* download_url entries: two mirrors with the same file name, one with
\* another, one without the '%' marker, one whose path names no file.
TemplatePdbA == <<"https://a", "/", "%", ".pdb">>
TemplatePdbB == <<"https://b", "/", "%", ".pdb">>
TemplateCif == <<"https://c", "/", "%", ".cif">>
TemplateNoMarker == <<"https://d", "/", "x", ".pdb">>
TemplateNoName == <<"https://e", "/", "?", "id=", "%">>
Templates == {TemplatePdbA, TemplatePdbB, TemplateCif, TemplateNoMarker, TemplateNoName}

TemplateLists == UNION {[1..len -> Templates] : len \in 0..MaxTemplates}

\* Identifiers as the extraction yields them: a proper one, and the window
\* of a line with blanks after the tag.
IdProper == <<"1", "a", "b", "c">>
IdBlank == <<" ", " ", " ", "1">>

\* No call made yet; a finished call is noted in `done` with its result, the
\* answers it got and the files it left.
NoCalls == [pdb_id |-> <<>>, save_path |-> <<>>, log |-> <<>>, done |-> <<>>]

\* The caller calls download_pdb(pdb_id, save_path) (main.rs:200-204).
CallDownload ==
    /\ main_pc = "test"
    /\ dl[1] = <<>>
    /\ Len(calls.done) < MaxCalls
    /\ dl' = [dl EXCEPT ![1] =
                <<Settled(EnterTemplate(NewDownload(calls.pdb_id, calls.save_path, <<0, 0>>),
                                        1, files))>>]
    /\ UNCHANGED <<CONFIG, records, lookup, main_pc, main_i, main_result,
                   tasks, sems, dirs, files, calls, page, lines>>

\* The caller's view of the network: the request of the running call is
\* answered, and the answer is noted in the call's log.
ObserveAnswer ==
    /\ main_pc = "test"
    /\ \E n \in DOMAIN dl[1] : \E answer \in MirrorAnswers :
          /\ DlAnswerWith(1, n, answer)
          /\ calls' = [calls EXCEPT !.log = Append(@, [t |-> dl[1][n].t,
                                                        err |-> answer.err,
                                                        status |-> answer.status])]

\* The call returns to the caller (main.rs:220, 236 and every `?`).
ReturnDownload ==
    /\ main_pc = "test"
    /\ dl[1] # <<>>
    /\ dl[1][1].pc \in {"ok", "err"}
    /\ calls' = [calls EXCEPT !.done = Append(@, [result |-> dl[1][1].pc,
                                                    error |-> dl[1][1].error,
                                                    log |-> calls.log,
                                                    files |-> files]),
                              !.log = <<>>]
    /\ dl' = [dl EXCEPT ![1] = <<>>]
    /\ UNCHANGED <<CONFIG, records, lookup, main_pc, main_i, main_result,
                   tasks, sems, dirs, files, page, lines>>

InitDl ==
    /\ CONFIG \in {[processor_limit |-> 1, downloader_limit |-> 1, download_url |-> urls] :
                     urls \in TemplateLists}
    /\ records = <<>>
    /\ lookup = <<>>
    /\ main_pc = "test"
    /\ main_i = 0
    /\ main_result = "none"
    /\ tasks = <<>>
    /\ sems = <<>>
    /\ dl = <<<<>>>>
    /\ dirs = {<<<<"d">>>>}
    /\ files = <<>>
    /\ calls \in {[pdb_id |-> id, save_path |-> <<<<"d">>>>, log |-> <<>>, done |-> <<>>] :
                    id \in {IdProper, IdBlank}}
    /\ page = <<>>
    /\ lines = [panic |-> FALSE, ids |-> <<>>]

NextDl ==
    \/ CallDownload
    \/ ReturnDownload
    \/ ObserveAnswer
    \/ \E n \in DOMAIN dl[1] : DlCreate(1, n)
    \/ \E n \in DOMAIN dl[1] : DlWrite(1, n)

SpecDl == InitDl /\ [][NextDl]_vars

\* The calls seen so far: the finished ones, then the one running.
CallsSeen ==
    calls.done \o
    (IF dl[1] # <<>> /\ dl[1][1].pc \notin {"ok", "err"}
     THEN <<[result |-> "running", error |-> "none", log |-> calls.log,
             files |-> files]>>
     ELSE <<>>)

\* Template 1 answered call c with a status other than 200 and template 2
\* answered it with 200.
SecondMirrorHas(c) ==
    /\ \E n \in 1..Len(c.log) : c.log[n].t = 1 /\ ~c.log[n].err /\ c.log[n].status # StatusOK
    /\ \E n \in 1..Len(c.log) : c.log[n].t = 2 /\ ~c.log[n].err /\ c.log[n].status = StatusOK

TestPath(t) == calls.save_path \o <<FileName(Format(CONFIG.download_url[t], calls.pdb_id).url).name>>

FirstCallHitFirstMirror ==
    /\ Len(calls.done) >= 1
    /\ Len(calls.done[1].log) = 1
    /\ calls.done[1].log[1] = [t |-> 1, err |-> FALSE, status |-> StatusOK]
    /\ calls.done[1].error # "create"

\* The list is not empty and every template of it makes, with the identifier
\* of the calls, a URI whose path names a file.
WellFormedTemplates ==
    /\ CONFIG.download_url # <<>>
    /\ \A t \in 1..Len(CONFIG.download_url) :
          LET f == Format(CONFIG.download_url[t], calls.pdb_id)
          IN  f.ok /\ UriValid(f.url) /\ FileName(f.url).some

\* C5 as stated, for such a list: two calls in sequence with the same arguments send exactly
\* one request in total, and the second returns Ok without sending any.
C5_TwoCallsOneRequest ==
    (main_pc = "test" /\ WellFormedTemplates /\ Len(calls.done) >= 2) =>
        /\ Len(calls.done[1].log) + Len(calls.done[2].log) = 1
        /\ calls.done[2].log = <<>>
        /\ calls.done[2].result = "ok"

\* C5 amended: when the first call's request to the first template is
\* answered 200 and the destination file is created, the two calls send
\* exactly one request in total and the second returns Ok from the existence
\* check alone, without a request.
C5_SecondCallSkips ==
    (main_pc = "test" /\ FirstCallHitFirstMirror) =>
        /\ \A n \in DOMAIN dl[1] : dl[1][n].pc = "ok" /\ calls.log = <<>>
        /\ Len(calls.done) >= 2 =>
             /\ Len(calls.done[1].log) + Len(calls.done[2].log) = 1
             /\ calls.done[2].log = <<>>
             /\ calls.done[2].result = "ok"

\* C5 witness: the second call has returned after a first call that
\* downloaded from the first template.
C5_Witness ==
    /\ main_pc = "test"
    /\ FirstCallHitFirstMirror
    /\ Len(calls.done) >= 2
    /\ calls.done[1].result = "ok"
    /\ calls.done[2].result = "ok"

\* C10: a call never returns with, as the last thing it did, a request that
\* failed with a connection error to a template that is not the last one.
C10_ErrorOnlyAfterAllTemplates ==
    main_pc = "test" =>
    \A m \in 1..Len(calls.done) :
        LET c == calls.done[m]
        IN  (c.log # <<>> /\ c.log[Len(c.log)].err)
                => c.log[Len(c.log)].t = Len(CONFIG.download_url)

\* The files there were when call m started.
FilesBefore(m) == IF m = 1 THEN <<>> ELSE calls.done[m - 1].files

\* Every template of the list answered call c, each with a status that is no
\* success (no 2xx).
AllMissed(c) ==
    /\ CONFIG.download_url # <<>>
    /\ \A t \in 1..Len(CONFIG.download_url) :
          \E n \in 1..Len(c.log) :
             c.log[n].t = t /\ ~c.log[n].err /\ c.log[n].status \notin 200..299

\* C11: a call that every template answered with a non-success status sent
\* one request to each template, in list order, returned Ok, and left the
\* files as they were when it started: none at the path of any template.
C11_AllMissesIsOk ==
    main_pc = "test" =>
    \A m \in 1..Len(calls.done) :
        LET c == calls.done[m]
        IN  AllMissed(c) =>
              /\ Len(c.log) = Len(CONFIG.download_url)
              /\ \A n \in 1..Len(c.log) : c.log[n].t = n
              /\ c.result = "ok" /\ c.error = "none"
              /\ c.files = FilesBefore(m)
              /\ \A t \in 1..Len(CONFIG.download_url) : TestPath(t) \notin DOMAIN c.files

\* C11 witness: a call on a list of three templates, all of which answered
\* 404, has returned Ok.
C11_Witness ==
    /\ main_pc = "test"
    /\ Len(CONFIG.download_url) = 3
    /\ \E m \in 1..Len(calls.done) :
          AllMissed(calls.done[m]) /\ calls.done[m].result = "ok"

\* C20: a call that returned Ok without a request, from the existence check
\* of the first template's path, found there a file that holds a complete
\* response body.
C20_SkipFindsCompleteFile ==
    (main_pc = "test" /\ WellFormedTemplates) =>
    \A m \in 1..Len(calls.done) :
        LET c == calls.done[m]
        IN  (c.result = "ok" /\ c.log = <<>>) =>
              /\ TestPath(1) \in DOMAIN c.files
              /\ c.files[TestPath(1)].complete

\* --------------------------------------------- the extraction on its own
\* Lines of a lookup page: two structured PDB records as UniProt writes them
\* (one blank after the tag), the same two with four blanks after the tag,
\* one cut short, a PDBsum record, and an unrelated line.
LineId1 == TagPDB \o <<" ", "1", "A", "B", "C", ";", " ", "X">>
LineId2 == TagPDB \o <<" ", "2", "x", "y", "z", ";", " ", "X">>
LineWide1 == TagPDB \o <<" ", " ", " ", " ", "1", "A", "B", "C", ";">>
LineWide2 == TagPDB \o <<" ", " ", " ", " ", "2", "x", "y", "z", ";">>
LineShort == TagPDB \o <<" ", "1", "A">>
LineSum == <<"D", "R", " ", " ", " ", "P", "D", "B", "s", "u", "m", ";", " ", "1", "A", "B", "C">>
LineOther == <<"I", "D", " ", " ", " ", "P", "0", "0", "5", "3", "3", "_", "H", "U", "M", "A", "N">>
PageLines == {LineId1, LineId2, LineWide1, LineWide2, LineShort, LineSum, LineOther}

RECURSIVE JoinLines(_)
\* The page whose lines are ls, a line feed between two lines.
JoinLines(ls) ==
    IF ls = <<>> THEN <<>>
    ELSE IF Len(ls) = 1 THEN ls[1]
    ELSE ls[1] \o <<"\n">> \o JoinLines(Tail(ls))

NotExtracted == [panic |-> FALSE, ids |-> <<<<"not run">>>>]

InitParse ==
    /\ CONFIG = [processor_limit |-> 1, downloader_limit |-> 1, download_url |-> <<>>]
    /\ records = <<>>
    /\ lookup = <<>>
    /\ main_pc = "test"
    /\ main_i = 0
    /\ main_result = "none"
    /\ tasks = <<>>
    /\ sems = <<>>
    /\ dl = <<<<>>>>
    /\ dirs = {}
    /\ files = <<>>
    /\ calls = NoCalls
    /\ page \in {JoinLines(ls) : ls \in UNION {[1..len -> PageLines] : len \in 0..MaxLines}}
    /\ lines = NotExtracted

\* main.rs:147-155 applied to page.
Extract ==
    /\ main_pc = "test"
    /\ lines = NotExtracted
    /\ lines' = ExtractIds(page)
    /\ UNCHANGED <<CONFIG, records, lookup, main_pc, main_i, main_result, tasks,
                   sems, dl, dirs, files, calls, page>>

NextParse == Extract

SpecParse == InitParse /\ [][NextParse]_vars

\* The lines of page, cut at line feeds without the operators of the model.
LineStarts == {1} \cup {n + 1 : n \in {m \in 1..Len(page) : page[m] = "\n"}}
LineEnd(from) ==
    IF \E n \in from..Len(page) : page[n] = "\n"
    THEN (CHOOSE n \in from..Len(page) :
              page[n] = "\n" /\ \A m \in from..(n - 1) : page[m] # "\n") - 1
    ELSE Len(page)
IsTagged(from) ==
    /\ LineEnd(from) - from + 1 >= 9
    /\ \A n \in 1..9 : page[from + n - 1] = TagPDB[n]
TaggedStarts == {from \in LineStarts : IsTagged(from)}

\* The pages of the example: the two records between unrelated lines.
ExamplePageWide == JoinLines(<<LineWide1, LineOther, LineWide2>>)
ExamplePage == JoinLines(<<LineId1, LineOther, LineId2>>)
ExampleIds == <<<<"1", "a", "b", "c">>, <<"2", "x", "y", "z">>>>

MaxProcessorLimit == 2
MaxDownloaderLimit == 2

\* The lookup service of the runs: accession A cannot be reached, B has two
\* PDB records, C has a PDB record cut short, D has none (the body of a 404
\* answer), E has three, the first two alike.
PageTwo == JoinLines(<<LineOther, LineId1, LineSum, LineId2>>)
PageThree == JoinLines(<<LineId1, LineId1, LineId2>>)
PageCut == JoinLines(<<LineOther, LineShort>>)
PageNone == JoinLines(<<LineOther, LineSum>>)
LookupService ==
    (<<"A">> :> [err |-> TRUE, status |-> 0, page |-> <<>>])
    @@ (<<"B">> :> [err |-> FALSE, status |-> 200, page |-> PageTwo])
    @@ (<<"C">> :> [err |-> FALSE, status |-> 200, page |-> PageCut])
    @@ (<<"D">> :> [err |-> FALSE, status |-> 404, page |-> PageNone])
    @@ (<<"E">> :> [err |-> FALSE, status |-> 200, page |-> PageThree])

\* The uniprot_accession fields of the records of a run, record by record.
AccessionFields ==
    { <<<<"B">>, <<"B">>>>,
      <<<<>>, <<"A", "|", "B">>, <<"B", "|", "A">>>>,
      <<<<"D", "|", "C">>, <<"B">>>>,
      <<<<>>, <<"A">>, <<"D">>, <<"A">>, <<>>>>,
      <<<<"E">>>> }

\* The download_url lists of a run.
RunTemplates == {<<TemplatePdbA>>, <<TemplateNoMarker>>}

Record(i, field) ==
    [chembl_id |-> <<"C", "H", "E", "M", "B", "L", ToString(i)>>,
     target_name |-> <<"t", "/", ToString(i)>>,
     uniprot_accession |-> field]

Init ==
    /\ CONFIG \in {[processor_limit |-> p, downloader_limit |-> d, download_url |-> urls] :
                     p \in 1..MaxProcessorLimit, d \in 1..MaxDownloaderLimit,
                     urls \in RunTemplates}
    /\ records \in {[i \in 1..Len(fields) |-> Record(i, fields[i])] : fields \in AccessionFields}
    /\ lookup = LookupService
    /\ main_pc = "spawn"
    /\ main_i = 1
    /\ main_result = "none"
    /\ tasks = [i \in 1..Len(records) |-> NewTask]
    /\ sems = (ProcessorSem :> CONFIG.processor_limit)
    /\ dl = [i \in 1..Len(records) |-> <<>>]
    /\ dirs = {}
    /\ files = <<>>
    /\ calls = NoCalls
    /\ page = <<>>
    /\ lines = NotExtracted

Spec == Init /\ [][Next]_vars

\* The download_pdb invocations of record i that have started and not
\* returned, and the same over all records.
InFlight(i) == {n \in DOMAIN dl[i] : dl[i][n].pc \in {"get", "create", "write"}}
AllInFlight == UNION {{<<i, n>> : n \in InFlight(i)} : i \in DOMAIN dl}

\* C1: at most processor_limit process_data invocations have started and
\* not returned.
C1_ProcessorCap ==
    main_pc # "test" =>
        Cardinality({i \in DOMAIN tasks : InProcessData(i)}) <= CONFIG.processor_limit

\* C1 witness: five records under processor_limit 2, two of them inside
\* process_data and another one spawned and waiting for a permit.
C1_Witness ==
    /\ main_pc # "test"
    /\ Len(records) = 5
    /\ CONFIG.processor_limit = 2
    /\ Cardinality({i \in DOMAIN tasks : InProcessData(i)}) = 2
    /\ \E i \in DOMAIN tasks : tasks[i].pc = "acquire"

\* C2: per accession in hand, at most downloader_limit download_pdb
\* invocations have started and not returned; the download tasks of an
\* accession all hold the one semaphore allocated for it, whose permits are
\* downloader_limit less the ones they hold, and no task of another record
\* holds that semaphore.
C2_DownloaderCap ==
    main_pc # "test" =>
    \A i \in DOMAIN dl :
        /\ Cardinality(InFlight(i)) <= CONFIG.downloader_limit
        /\ \A n \in DOMAIN dl[i] :
              /\ dl[i][n].sem = DownloaderSem(i, tasks[i].k)
              /\ dl[i][n].sem \in DOMAIN sems
              /\ sems[dl[i][n].sem] =
                    CONFIG.downloader_limit
                    - Cardinality({m \in DOMAIN dl[i] : dl[i][m].permit})
              /\ \A h \in DOMAIN dl : \A m \in DOMAIN dl[h] :
                    dl[h][m].sem = dl[i][n].sem => h = i

\* C2 witness: a page gave three identifiers under downloader_limit 2; two
\* downloads are in flight and the third waits for a permit.
C2_Witness ==
    /\ main_pc # "test"
    /\ CONFIG.downloader_limit = 2
    /\ \E i \in DOMAIN dl :
          /\ Len(dl[i]) = 3
          /\ Cardinality(InFlight(i)) = 2
          /\ \E n \in DOMAIN dl[i] : dl[i][n].pc = "spawned"

\* C3: over all records, at most processor_limit * downloader_limit
\* download_pdb invocations are in flight.
C3_TotalCap ==
    main_pc # "test" =>
        Cardinality(AllInFlight) <= CONFIG.processor_limit * CONFIG.downloader_limit

\* C3 witness: with both limits 2, four downloads are in flight, two for
\* each of two records.
C3_Witness ==
    /\ main_pc # "test"
    /\ CONFIG.processor_limit = 2
    /\ CONFIG.downloader_limit = 2
    /\ Cardinality(AllInFlight) = 4

\* C7: a record with an empty accession field never has a lookup fetched or
\* a download spawned, and its process_data, with the target directory and
\* the marker file made, returns Ok.
C7_EmptyAccession ==
    main_pc # "test" =>
    \A i \in DOMAIN tasks :
        records[i].uniprot_accession = <<>> =>
            /\ tasks[i].fetched = <<>>
            /\ tasks[i].invoked = {}
            /\ dl[i] = <<>>
            /\ tasks[i].pc \notin {"fetch", "join", "panicked"}
            /\ tasks[i].pc = "ok" => TargetDir(i) \in dirs /\ IdFile(i) \in DOMAIN files
            /\ (Finished(i) /\ TargetDir(i) \in dirs /\ IdFile(i) \in DOMAIN files)
                  => tasks[i].pc = "ok"

\* C7 witness: process_data of a record with an empty accession field has
\* returned Ok.
C7_Witness ==
    /\ main_pc # "test"
    /\ \E i \in DOMAIN tasks : records[i].uniprot_accession = <<>> /\ tasks[i].pc = "ok"

\* The identifiers of the page of an accession whose lookup answers.
IdsOf(acc) == ExtractIds(LookupAnswer(acc).page)

\* C8: when process_data has returned for a record of two accessions, one
\* whose lookup fails and one whose lookup answers, and no directory or file
\* creation failed, then both lookups were requested and download_pdb was
\* invoked for every identifier of the page that was answered.
C8_FanOutIsolation ==
    main_pc # "test" =>
    \A i \in DOMAIN tasks :
        LET accs == tasks[i].accessions
        IN  ( /\ tasks[i].pc \in {"ok", "err"}
              /\ tasks[i].error \in {"none", "fetch"}
              /\ Len(accs) = 2
              /\ \E a, b \in 1..2 :
                    /\ LookupAnswer(accs[a]).err
                    /\ ~LookupAnswer(accs[b]).err /\ ~IdsOf(accs[b]).panic )
            => \A k \in 1..2 :
                  /\ \E n \in 1..Len(tasks[i].fetched) : tasks[i].fetched[n] = k
                  /\ ~LookupAnswer(accs[k]).err =>
                        \A n \in 1..Len(IdsOf(accs[k]).ids) : <<k, n>> \in tasks[i].invoked

\* C9: main never returns an error because of what became of a target's
\* task.
C9_TargetOutcomeNeverFailsRun ==
    (main_pc = "returned" /\ main_pc # "test") => main_result # "ErrJoin"

\* C12: with process_data of a record returned Err, no sibling record is
\* skipped or cancelled on that account: a sibling is unspawned only while
\* main's spawn loop has not reached it (or stopped on an I/O failure), the
\* run has stopped with a sibling not finished only through a panicked task
\* or the spawn loop's I/O failure, and the summary is reached only with
\* every task finished.
C12_ErrorLeavesSiblings ==
    main_pc # "test" =>
    \A i \in DOMAIN tasks :
        tasks[i].pc = "err" =>
            /\ tasks[i].error # "panic"
            /\ \A j \in DOMAIN tasks \ {i} :
                  /\ tasks[j].pc = "unspawned" =>
                        \/ main_pc = "spawn" /\ main_i <= j
                        \/ main_result = "ErrIo"
                  /\ (main_pc = "returned" /\ ~Finished(j)) =>
                        \/ main_result = "ErrIo"
                        \/ main_result = "ErrJoin" /\ tasks[main_i].pc = "panicked"
            /\ main_result = "Ok" => \A j \in DOMAIN tasks : Finished(j)

\* C12 witness: the run reached its summary with one record's process_data
\* returned Err and a later sibling's returned Ok after its downloads.
C12_Witness ==
    /\ main_pc = "returned"
    /\ main_result = "Ok"
    /\ \E i, j \in DOMAIN tasks :
          /\ i < j
          /\ tasks[i].pc = "err"
          /\ tasks[j].pc = "ok" /\ tasks[j].invoked # {}

\* C13: no task panics, whatever the page of a lookup: a tagged line shorter
\* than 14 bytes is an error of its accession.
C13_ShortLineIsNoPanic ==
    main_pc # "test" =>
    \A i \in DOMAIN tasks : tasks[i].pc # "panicked" /\ tasks[i].error # "panic"

\* C14: the step in which a download_pdb task returns Err changes no sibling
\* download of the accession and leaves process_data where it is; and the
\* step of the join loop that finds a download returned Err goes on to the
\* next download task, after the last one to the lookup of the following
\* accession, after the last accession to Ok.
C14_DownloadErrorIsolated ==
    [][main_pc # "test" =>
       \A i \in DOMAIN tasks :
          /\ \A n \in DOMAIN dl[i] :
                (dl[i][n].pc # "err" /\ n \in DOMAIN dl'[i] /\ dl'[i][n].pc = "err")
                  => /\ \A m \in DOMAIN dl[i] \ {n} : dl'[i][m] = dl[i][m]
                     /\ tasks'[i].pc = tasks[i].pc
          /\ ( /\ tasks[i].pc = "join"
               /\ \E n \in DOMAIN dl[i] : dl[i][n].pc = "err"
               /\ (tasks'[i].pc # "join" \/ tasks'[i].j # tasks[i].j) )
                  => IF tasks[i].j < Len(dl[i])
                     THEN tasks'[i].pc = "join" /\ tasks'[i].j = tasks[i].j + 1
                          /\ dl'[i] = dl[i]
                     ELSE IF tasks[i].k < Len(tasks[i].accessions)
                     THEN tasks'[i].pc = "fetch" /\ tasks'[i].k = tasks[i].k + 1
                     ELSE tasks'[i].pc = "ok"
    ]_vars

\* C14 witness: the lookup of a record's second accession is requested after
\* a first accession of which one download failed on its body (its file is
\* there, incomplete) and the sibling download wrote its file to the end.
C14_Witness ==
    /\ main_pc # "test"
    /\ \E i \in DOMAIN tasks :
          /\ tasks[i].pc = "fetch" /\ tasks[i].k = 2
          /\ tasks[i].invoked = {<<1, 1>>, <<1, 2>>}
          /\ \E f, g \in DOMAIN files :
                /\ SubSeq(f, 1, 3) = UniprotDir(i, tasks[i].accessions[1])
                /\ SubSeq(g, 1, 3) = UniprotDir(i, tasks[i].accessions[1])
                /\ ~files[f].complete /\ files[g].complete

\* C15: the lookups of a record are requested in field order, one at a
\* time; while one is awaited no download task of the record is unfinished,
\* and an unfinished download task belongs to the accession in hand, whose
\* lookup is the last one requested.
C15_AccessionsInTurn ==
    main_pc # "test" =>
    \A i \in DOMAIN tasks :
        /\ tasks[i].fetched = [n \in 1..Len(tasks[i].fetched) |-> n]
        /\ tasks[i].pc \in {"fetch", "join"} => Len(tasks[i].fetched) = tasks[i].k
        /\ \A n \in DOMAIN dl[i] :
              dl[i][n].pc \notin {"ok", "err"} =>
                 /\ tasks[i].pc = "join"
                 /\ dl[i][n].save_path = UniprotDir(i, tasks[i].accessions[tasks[i].k])

\* C15 witness: the lookup of a record's second accession is awaited after
\* both downloads of its first accession were invoked and have returned.
C15_Witness ==
    /\ main_pc # "test"
    /\ \E i \in DOMAIN tasks :
          /\ tasks[i].pc = "fetch" /\ tasks[i].k = 2
          /\ tasks[i].invoked = {<<1, 1>>, <<1, 2>>}
          /\ dl[i] = <<>>

\* C16: an accession whose lookup answered a status that is no 2xx is where
\* its process_data stops with an error: the task is never past it and never
\* returns Ok.
C16_NonSuccessLookupIsFailure ==
    main_pc # "test" =>
    \A i \in DOMAIN tasks :
        \A n \in 1..Len(tasks[i].fetched) :
            LET k == tasks[i].fetched[n]
                answer == LookupAnswer(tasks[i].accessions[k])
            IN  (~answer.err /\ answer.status \notin 200..299) =>
                    /\ tasks[i].k = k
                    /\ tasks[i].pc \in {"fetch", "err"}

\* C17: no two download_pdb tasks are at the same time between File::create
\* and the end of the body for the same destination path.
C17_OneWriterPerFile ==
    main_pc # "test" =>
    \A i \in DOMAIN dl :
        \A n, m \in DOMAIN dl[i] :
            ( /\ n # m
              /\ dl[i][n].pc = "write" /\ dl[i][m].pc = "write" )
            => SaveFilepath(dl[i][n], dl[i][n].t) # SaveFilepath(dl[i][m], dl[i][m].t)

\* C18: with a template without the '%' marker in download_url, no task
\* enters process_data and no lookup is requested.
C18_NoMarkerAbortsStartup ==
    ( /\ main_pc # "test"
      /\ \E t \in 1..Len(CONFIG.download_url) : IndexOf(CONFIG.download_url[t], "%") = 0 )
    => \A i \in DOMAIN tasks :
          /\ ~InProcessData(i) /\ ~Finished(i)
          /\ tasks[i].fetched = <<>>

\* ------------------------------------------------- the run under fairness
\* When TaskFetched can take a step: a lookup is awaited.
FetchedEnabled == RuntimeAlive /\ \E i \in DOMAIN tasks : tasks[i].pc = "fetch"

\* A step that can be taken is taken in the end: the runtime polls a task
\* that is ready, and a request is answered or fails. The weak fairness of
\* TaskFetched is written out with FetchedEnabled for its ENABLED; a run
\* takes that step once per accession at most, never infinitely often, which
\* leaves of WF_vars(TaskFetched) the disjunct []<>(~FetchedEnabled).
Fairness ==
    /\ WF_vars(MainSpawn)
    /\ WF_vars(MainJoin)
    /\ WF_vars(\E i \in DOMAIN tasks : TaskAcquire(i))
    /\ WF_vars(\E i \in DOMAIN tasks : TaskMarker(i))
    /\ []<>(~FetchedEnabled)
    /\ WF_vars(\E i \in DOMAIN tasks : TaskJoin(i))
    /\ WF_vars(\E i \in DOMAIN dl : \E n \in DOMAIN dl[i] : DlAcquire(i, n))
    /\ WF_vars(\E i \in DOMAIN dl : \E n \in DOMAIN dl[i] : DlAnswer(i, n))
    /\ WF_vars(\E i \in DOMAIN dl : \E n \in DOMAIN dl[i] : DlCreate(i, n))
    /\ WF_vars(\E i \in DOMAIN dl : \E n \in DOMAIN dl[i] : DlWrite(i, n))

SpecFair == Init /\ [][Next]_vars /\ Fairness

\* The permits of a semaphore and the permits held add up to its limit; a
\* task holds a permit of the processor semaphore exactly while it is in
\* process_data, a download task holds none once download_pdb returned.
PermitsConserved ==
    main_pc # "test" =>
      /\ sems[ProcessorSem] + Cardinality({i \in DOMAIN tasks : tasks[i].permit})
            = CONFIG.processor_limit
      /\ \A i \in DOMAIN tasks : tasks[i].permit <=> InProcessData(i)
      /\ \A i \in DOMAIN dl :
            dl[i] # <<>> =>
              /\ sems[DownloaderSem(i, tasks[i].k)]
                    + Cardinality({n \in DOMAIN dl[i] : dl[i][n].permit})
                    = CONFIG.downloader_limit
              /\ \A n \in DOMAIN dl[i] : dl[i][n].pc \in {"ok", "err"} => ~dl[i][n].permit

\* C19: permits are conserved in every state, and every task that was
\* spawned gets its permit in the end: from some point on no task waits for
\* one.
C19_PermitsConservedAndGranted ==
    /\ []PermitsConserved
    /\ <>[](\A i \in DOMAIN tasks : tasks[i].pc # "acquire")

====
